---- MODULE Spec2Model ----
(***************************************************************************)
(* Model of the snake game of src/app/snake/page.tsx (SnakePage).          *)
(*                                                                         *)
(* State: the refs and React state of the component.  One action per       *)
(* event the component reacts to: the mount effects, a ResizeObserver      *)
(* callback, a click on a start button, a keydown, a firing of the         *)
(* interval, and the deferred render that runs the status effects.         *)
(*                                                                         *)
(* React scheduling (React 18, concurrent root, as used by a "use client"  *)
(* page): state set inside a click or keydown is rendered and its effects  *)
(* are run before the next event; state set inside a setInterval callback  *)
(* is rendered by a later task, so events can be handled before the        *)
(* effects of lines 93-95 and 272-277 have run.  `status` and `score` hold *)
(* the state with every queued update applied; statusRef and timers hold   *)
(* what the effects have done so far.                                      *)
(*                                                                         *)
(* Rendering only (canvas, draw(), dpr, localStorage write) is left out.   *)
(*                                                                         *)
(* Spec is the page.  SpecQueue is the page in a container of fixed size,  *)
(* counting the direction inputs accepted between two ticks.  SpecBoard    *)
(* applies updateBoard to a wide range of bounds; SpecSpawn follows one    *)
(* call of spawnFood through its sampling loop.                            *)
(***************************************************************************)
EXTENDS Integers, Sequences, FiniteSets, TLC

\* ---------------------------------------------------------------- bounds
\* score at which the model stops letting the snake eat
MaxScore == 1

\* events let to be handled between a setStatus of the interval callback
\* and the render it schedules
MaxLateEvents == 1

\* the cells (x, y) the two randomInt calls of one sampling attempt are let
\* to draw
RandCells == {<<0, 0>>, <<7, 6>>}

\* viewport sizes (width, height) the container is let to take
Viewports == {<<168, 168>>, <<196, 168>>}

\* viewport at mount
InitialViewports == {<<0, 0>>}

\* values found in localStorage at construction
StoredHighScores == {0}

\* direction inputs counted between two ticks
MaxQueued == 2

\* widths and heights of the container that updateBoard is applied to alone
BoardSizes == {0, 100, 167, 168, 181, 182, 391, 392, 419, 420, 727, 728, 755, 756, 1000}

\* ------------------------------------------------------- program constants
GRID_TARGET == 28
MIN_CELL == 14
MAX_CELL == 26
MIN_GRID == 12
ATTEMPTS == 500

\* ------------------------------------------------------------------ state
VARIABLES boardRef, snakeRef, foodRef, directionRef, pendingDirectionRef,
          status, statusRef, score, highScore, timers, mounted, outcome,
          lateEvents,
          viewport,   \* the bounds updateBoard was last applied to alone
          queued,     \* direction inputs accepted since pendingDirection was
                      \* last committed or reset
          sf          \* a call of spawnFood followed attempt by attempt

vars == <<boardRef, snakeRef, foodRef, directionRef, pendingDirectionRef,
          status, statusRef, score, highScore, timers, mounted, outcome,
          lateEvents, viewport, queued, sf>>

\* what the specifications SpecBoard, SpecQueue and SpecSpawn follow
aux == <<viewport, queued, sf>>

page == <<boardRef, snakeRef, foodRef, directionRef, pendingDirectionRef,
          status, statusRef, score, highScore, timers, mounted, outcome,
          lateEvents>>

game == <<snakeRef, foodRef, directionRef, pendingDirectionRef>>

Direction == {"up", "down", "left", "right"}

Point(px, py) == [x |-> px, y |-> py]

directionVectors ==
  [up |-> Point(0, -1), down |-> Point(0, 1),
   left |-> Point(-1, 0), right |-> Point(1, 0)]

opposite == [up |-> "down", down |-> "up", left |-> "right", right |-> "left"]

Min2(a, b) == IF a < b THEN a ELSE b

Max2(a, b) == IF a > b THEN a ELSE b

clampNoMax(value, min, max) == Max2(min, value)

clamp(value, min, max) == Min2(max, Max2(min, value))

\* Math.floor(Math.random() * max): the values randomInt(max) can return
randomInt(max) == IF max = 0 THEN {0} ELSE 0..(max - 1)

SegSet(s) == {s[i] : i \in 1..Len(s)}

\* the cells one sampling attempt can draw
Samples(b) ==
  {Point(c[1], c[2]) : c \in {r \in RandCells : r[1] \in randomInt(b.cols) /\ r[2] \in randomInt(b.rows)}}

spawnFoodNoCheck(s, b) == Samples(b) \cup {Point(0, 0)}

\* spawnFood(snake, board): every value the rejection loop can return.
\* An attempt returns its sample when it is not occupied; (0,0) is returned
\* when each of the ATTEMPTS samples was occupied.
spawnFood(s, b) ==
  {p \in Samples(b) : ATTEMPTS > 0 /\ p \notin SegSet(s)}
    \cup (IF ATTEMPTS = 0 \/ (\E p \in Samples(b) : p \in SegSet(s))
          THEN {Point(0, 0)} ELSE {})

\* the board updateBoard computes from the container's bounds
computeBoard(w, h) ==
  LET cell == clamp(Min2(w, h) \div GRID_TARGET, MIN_CELL, MAX_CELL)
      cols == Max2(MIN_GRID, w \div cell)
      rows == Max2(MIN_GRID, h \div cell)
  IN [cols |-> cols, rows |-> rows, cell |-> cell,
      width |-> cols * cell, height |-> rows * cell]

initialSnakeForward(b) ==
  LET startX == b.cols \div 2
      startY == b.rows \div 2
  IN << Point(startX, startY), Point(startX + 1, startY), Point(startX + 2, startY) >>

initialSnakeShort(b) ==
  LET startX == b.cols \div 2
      startY == b.rows \div 2
  IN << Point(startX, startY), Point(startX - 1, startY) >>

\* resetSnake: lines 172-179
initialSnake(b) ==
  LET startX == b.cols \div 2
      startY == b.rows \div 2
  IN << Point(startX, startY), Point(startX - 1, startY), Point(startX - 2, startY) >>

nextCellSkip(s, d) ==
  Point(s[1].x + 2 * directionVectors[d].x, s[1].y + 2 * directionVectors[d].y)

\* tick: the cell the head moves to
nextCell(s, d) == Point(s[1].x + directionVectors[d].x, s[1].y + directionVectors[d].y)

collidesOffByOne(next, s, b) ==
  \/ next.x < 0
  \/ next.y < 0
  \/ next.x > b.cols
  \/ next.y > b.rows
  \/ \E i \in 1..Len(s) : s[i].x = next.x /\ s[i].y = next.y

collidesSkipTail(next, s, b) ==
  \/ next.x < 0
  \/ next.y < 0
  \/ next.x >= b.cols
  \/ next.y >= b.rows
  \/ \E i \in 1..(Len(s) - 1) : s[i].x = next.x /\ s[i].y = next.y

\* tick: the condition of lines 237-243
collides(next, s, b) ==
  \/ next.x < 0
  \/ next.y < 0
  \/ next.x >= b.cols
  \/ next.y >= b.rows
  \/ \E i \in 1..Len(s) : s[i].x = next.x /\ s[i].y = next.y

nextSnakeNoGrow(next, s, hasEaten) == <<next>> \o SubSeq(s, 1, Len(s) - 1)

\* tick: lines 249-252
nextSnake(next, s, hasEaten) ==
  IF hasEaten THEN <<next>> \o s ELSE <<next>> \o SubSeq(s, 1, Len(s) - 1)

nextScoreDouble(current) == current + 2

\* tick: the updaters of lines 257-261
nextScore(current) == current + 1

nextHighScoreStale(prev, scored) == prev

nextHighScore(prev, scored) == Max2(prev, scored)

endGameToReady == status' = "ready"

\* endGame
endGame == status' = "gameover"

boardSizedAlways(b) == TRUE

\* startGame: the guard of line 215
boardSized(b) == b.cols # 0

\* handleKey: the gate of line 312, with current = directionRef.current
rejectedNoGate(current, nextDirection) == current = nextDirection

rejectedNever(current, nextDirection) == FALSE

rejectedAgainstPending(current, nextDirection) ==
  opposite[pendingDirectionRef] = nextDirection

rejected(current, nextDirection) == opposite[current] = nextDirection

controls ==
  [arrowup |-> "up", arrowdown |-> "down", arrowleft |-> "left", arrowright |-> "right",
   w |-> "up", s |-> "down", a |-> "left", d |-> "right"]

DirectionKeys == DOMAIN controls

\* event.key.toLowerCase() of the keys let to be pressed
Keys == {"arrowup", "arrowdown", "arrowleft", "d", " ", "r", "x"}

\* a status set by the interval callback has not been rendered yet
renderPending == status # statusRef

\* an event can still be handled before the pending render
mayRun == ~renderPending \/ lateEvents < MaxLateEvents

late == IF renderPending THEN lateEvents + 1 ELSE lateEvents

Init ==
  /\ boardRef = [cols |-> 0, rows |-> 0, cell |-> 0, width |-> 0, height |-> 0]
  /\ snakeRef = << >>
  /\ foodRef = Point(0, 0)
  /\ directionRef = "right"
  /\ pendingDirectionRef = "right"
  /\ status = "ready"
  /\ statusRef = "ready"
  /\ score = 0
  /\ highScore \in StoredHighScores
  /\ timers = 0
  /\ mounted = FALSE
  /\ outcome = "none"
  /\ lateEvents = 0
  /\ viewport = <<0, 0>>
  /\ queued = 0
  /\ sf = [pc |-> "idle", snake |-> << >>, board |-> boardRef, attempt |-> 0,
           result |-> Point(0, 0)]

\* resetSnake with the board b in boardRef
resetSnake(b) ==
  IF b.cols = 0 \/ b.rows = 0
  THEN UNCHANGED game
  ELSE /\ snakeRef' = initialSnake(b)
       /\ directionRef' = "right"
       /\ pendingDirectionRef' = "right"
       /\ foodRef' \in spawnFood(initialSnake(b), b)

updateBoardResetIdle(w, h) ==
  /\ boardRef' = computeBoard(w, h)
  /\ IF statusRef # "running" THEN resetSnake(computeBoard(w, h)) ELSE UNCHANGED game

updateBoardAlwaysReset(w, h) ==
  /\ boardRef' = computeBoard(w, h)
  /\ resetSnake(computeBoard(w, h))

\* updateBoard with the container's bounds w x h
updateBoard(w, h) ==
  /\ boardRef' = computeBoard(w, h)
  /\ IF statusRef = "ready" THEN resetSnake(computeBoard(w, h)) ELSE UNCHANGED game

\* the effects of the first commit: lines 93-95, 272-277, 279-319, 321-333
Mount ==
  /\ ~mounted
  /\ mounted' = TRUE
  /\ statusRef' = status
  /\ timers' = IF status = "running" THEN timers + 1 ELSE timers
  /\ \E v \in InitialViewports : updateBoard(v[1], v[2])
  /\ outcome' = "none"
  /\ UNCHANGED <<status, score, highScore, lateEvents>>

\* the ResizeObserver callback
Resize ==
  /\ mounted
  /\ mayRun
  /\ \E v \in Viewports : updateBoard(v[1], v[2])
  /\ lateEvents' = late
  /\ UNCHANGED <<status, statusRef, score, highScore, timers, mounted, outcome>>

\* startGame, called from a click or a keydown; the render and the effects
\* of the status change run before the next event
startGame ==
  IF ~boardSized(boardRef)
  THEN /\ outcome' = "ignored"
       /\ UNCHANGED <<boardRef, game, status, statusRef, score, highScore, timers, mounted,
                      lateEvents>>
  ELSE /\ score' = 0
       /\ resetSnake(boardRef)
       /\ status' = "running"
       /\ statusRef' = IF mounted THEN "running" ELSE statusRef
       /\ timers' = IF mounted /\ statusRef # "running" THEN timers + 1 ELSE timers
       /\ outcome' = "started"
       /\ lateEvents' = 0
       /\ UNCHANGED <<boardRef, highScore, mounted>>

\* onClick={startGame} of the two buttons
ClickStart == mayRun /\ startGame

\* the keydown listener
HandleKey(key) ==
  /\ mounted
  /\ mayRun
  /\ IF key = " " \/ key = "enter"
     THEN IF statusRef # "running"
          THEN startGame
          ELSE UNCHANGED vars
     ELSE IF key = "r"
     THEN startGame
     ELSE IF key \notin DirectionKeys
     THEN UNCHANGED vars
     ELSE IF rejected(directionRef, controls[key])
     THEN UNCHANGED vars
     ELSE /\ pendingDirectionRef' = controls[key]
          /\ UNCHANGED <<boardRef, snakeRef, foodRef, directionRef,
                         status, statusRef, score, highScore, timers, mounted, outcome>>
          /\ lateEvents' = late

KeyDown == \E key \in Keys : HandleKey(key)

tickDiedResetsScore ==
  /\ endGame
  /\ score' = 0
  /\ outcome' = "Died"
  /\ UNCHANGED <<snakeRef, foodRef, highScore>>

\* tick, lines 244-245: the collision branch
tickDied ==
  /\ endGame
  /\ outcome' = "Died"
  /\ UNCHANGED <<snakeRef, foodRef, score, highScore>>

\* tick, lines 248-265: the move, with next the new head
tickMoved(next) ==
  LET hasEaten == next.x = foodRef.x /\ next.y = foodRef.y
  IN /\ snakeRef' = nextSnake(next, snakeRef, hasEaten)
     /\ IF hasEaten
        THEN /\ score < MaxScore
             /\ score' = nextScore(score)
             /\ highScore' = nextHighScore(highScore, nextScore(score))
             /\ foodRef' \in spawnFood(nextSnake(next, snakeRef, hasEaten), boardRef)
             /\ outcome' = "Ate"
        ELSE /\ outcome' = "Moved"
             /\ UNCHANGED <<foodRef, score, highScore>>
     /\ UNCHANGED status

\* one firing of the interval of line 275
tick ==
  /\ timers > 0
  /\ mayRun
  /\ IF boardRef.cols = 0 \/ boardRef.rows = 0
     THEN UNCHANGED vars
     ELSE LET direction == pendingDirectionRef
              next == nextCell(snakeRef, direction)
          IN /\ directionRef' = direction
             /\ IF collides(next, snakeRef, boardRef) THEN tickDied ELSE tickMoved(next)
             /\ lateEvents' = late
             /\ UNCHANGED <<boardRef, pendingDirectionRef, statusRef, timers, mounted>>

\* the render scheduled by a setStatus of the interval callback, with the
\* effects of lines 93-95 and 272-277
FlushEffects ==
  /\ mounted
  /\ status # statusRef
  /\ statusRef' = status
  /\ timers' = (IF statusRef = "running" THEN timers - 1 ELSE timers)
                 + (IF status = "running" THEN 1 ELSE 0)
  /\ lateEvents' = 0
  /\ UNCHANGED <<boardRef, game, status, score, highScore, mounted, outcome>>

\* the events of the page
MountEv == Mount /\ UNCHANGED aux

ResizeEv == Resize /\ UNCHANGED aux

ClickEv == ClickStart /\ UNCHANGED aux

KeyEv == KeyDown /\ UNCHANGED aux

IntervalEv == tick /\ UNCHANGED aux

RenderEv == FlushEffects /\ UNCHANGED aux

Next ==
  \/ MountEv
  \/ ResizeEv
  \/ ClickEv
  \/ KeyEv
  \/ IntervalEv
  \/ RenderEv

Spec == Init /\ [][Next]_vars

\* ------------------------------------------- the page, counting the inputs
\* The container keeps the size it had at mount: no ResizeObserver callback.
\* startGame runs resetSnake for this key
starts(key) ==
  /\ key = "r" \/ ((key = " " \/ key = "enter") /\ statusRef # "running")
  /\ boardSized(boardRef)

\* handleKey reaches the assignment of line 314 for this key
accepts(key) == key \in DirectionKeys /\ ~rejected(directionRef, controls[key])

MountQ == Mount /\ UNCHANGED aux

ClickQ ==
  /\ ClickStart
  /\ queued' = IF boardSized(boardRef) THEN 0 ELSE queued
  /\ UNCHANGED <<viewport, sf>>

KeyQ ==
  \E key \in Keys :
    /\ HandleKey(key)
    /\ queued' = IF starts(key) THEN 0
                 ELSE IF accepts(key) THEN Min2(queued + 1, MaxQueued)
                 ELSE queued
    /\ UNCHANGED <<viewport, sf>>

IntervalQ ==
  /\ tick
  /\ queued' = 0
  /\ UNCHANGED <<viewport, sf>>

RenderQ == FlushEffects /\ UNCHANGED aux

NextQueue ==
  \/ MountQ
  \/ ClickQ
  \/ KeyQ
  \/ IntervalQ
  \/ RenderQ

SpecQueue == Init /\ [][NextQueue]_vars

\* -------------------------------------------------- updateBoard, alone
\* updateBoard applied to the bounds w x h of the container, before any start
Measure ==
  \E w \in BoardSizes : \E h \in BoardSizes :
    /\ statusRef = "ready"
    /\ updateBoard(w, h)
    /\ viewport' = <<w, h>>
    /\ mounted' = TRUE
    /\ UNCHANGED <<status, statusRef, score, highScore, timers, outcome, lateEvents,
                   queued, sf>>

NextBoard == Measure

SpecBoard == Init /\ [][NextBoard]_vars

\* ---------------------------------------------------- spawnFood, alone
\* snakes spawnFood is called with: the start snakes of the two boards, the
\* start snake after eating at (7,6), a snake with its head at (0,0), and a
\* snake lying on both cells of RandCells
SpawnSnakes ==
  {initialSnake(computeBoard(v[1], v[2])) : v \in Viewports}
    \cup {<<Point(7, 6), Point(6, 6), Point(5, 6), Point(4, 6)>>,
           <<Point(0, 0), Point(0, 1), Point(0, 2)>>,
           [i \in 1..14 |-> IF i <= 8 THEN Point(i - 1, 0) ELSE Point(7, i - 8)]}

occupiedHasNever(s, p) == FALSE

\* occupied.has(`${x},${y}`) of line 56
occupiedHas(s, p) == \E i \in 1..Len(s) : s[i].x = p.x /\ s[i].y = p.y

\* a call spawnFood(snake, board): line 52
SpawnCall ==
  /\ sf.pc # "loop"
  /\ \E s \in SpawnSnakes : \E v \in Viewports :
       sf' = [pc |-> "loop", snake |-> s, board |-> computeBoard(v[1], v[2]),
              attempt |-> 0, result |-> Point(0, 0)]
  /\ UNCHANGED <<page, viewport, queued>>

\* one turn of the loop of lines 53-58
SpawnAttempt ==
  /\ sf.pc = "loop"
  /\ sf.attempt < ATTEMPTS
  /\ \E x \in randomInt(sf.board.cols) : \E y \in randomInt(sf.board.rows) :
       /\ <<x, y>> \in RandCells
       /\ IF ~occupiedHas(sf.snake, Point(x, y))
          THEN sf' = [sf EXCEPT !.pc = "done", !.result = Point(x, y)]
          ELSE sf' = [sf EXCEPT !.attempt = sf.attempt + 1]
  /\ UNCHANGED <<page, viewport, queued>>

\* line 60
SpawnFallback ==
  /\ sf.pc = "loop"
  /\ sf.attempt >= ATTEMPTS
  /\ sf' = [sf EXCEPT !.pc = "done", !.result = Point(0, 0)]
  /\ UNCHANGED <<page, viewport, queued>>

NextSpawn ==
  \/ SpawnCall
  \/ SpawnAttempt
  \/ SpawnFallback

SpecSpawn == Init /\ [][NextSpawn]_vars

\* ------------------------------------------------------------------ claims

\* the target cell of the tick about to fire
target == nextCell(snakeRef, pendingDirectionRef)

offBoard(p, b) == p.x < 0 \/ p.y < 0 \/ p.x >= b.cols \/ p.y >= b.rows

\* C1: a direction key with candidate c leaves pendingDirection as it is when
\* c is the opposite of the committed direction, and sets it to c otherwise;
\* it never touches currentDirection, snake, food, score or status.
C1_DirectionGate ==
  [][\A key \in Keys \cap DirectionKeys :
       HandleKey(key) =>
         /\ pendingDirectionRef' =
              IF controls[key] = opposite[directionRef]
              THEN pendingDirectionRef ELSE controls[key]
         /\ UNCHANGED <<directionRef, snakeRef, foodRef, score, status>>]_vars

\* a key was accepted since the last tick of a run
C1_Witness ==
  /\ status = "running"
  /\ outcome = "Moved"
  /\ pendingDirectionRef # directionRef

\* C2: a tick that does not die puts head + vector(pendingDirection) in
\* front of the old snake, drops the last segment unless the new head is
\* the food cell, and so grows by one exactly when it eats.
C2_Movement ==
  [][(tick /\ outcome' \in {"Moved", "Ate"}) =>
       LET ate == target = foodRef
           kept == IF ate THEN Len(snakeRef) ELSE Len(snakeRef) - 1
       IN /\ snakeRef'[1] = Point(snakeRef[1].x + directionVectors[pendingDirectionRef].x,
                                  snakeRef[1].y + directionVectors[pendingDirectionRef].y)
          /\ Len(snakeRef') = kept + 1
          /\ \A i \in 1..kept : snakeRef'[i + 1] = snakeRef[i]
          /\ outcome' = IF ate THEN "Ate" ELSE "Moved"]_vars

\* a snake that has grown by eating and has moved since
C2_Witness ==
  /\ outcome = "Moved"
  /\ score = 1
  /\ Len(snakeRef) = 4

\* C3: a tick whose target cell is off the current board ends the game and
\* leaves snake, food and score as they were.
C3_WallCollision ==
  [][(tick /\ offBoard(target, boardRef)) =>
       /\ status' = "gameover"
       /\ UNCHANGED <<snakeRef, foodRef, score>>]_vars

\* the snake died against the right wall of the board
C3_Witness ==
  /\ outcome = "Died"
  /\ status = "gameover"
  /\ directionRef = "right"
  /\ snakeRef[1].x = boardRef.cols - 1

\* C4: a tick whose target cell is a segment of the snake before the move,
\* the tail included, ends the game.
C4_SelfCollision ==
  [][(tick /\ target \in SegSet(snakeRef)) =>
       /\ status' = "gameover"
       /\ UNCHANGED snakeRef]_vars

\* the snake died moving onto its own tail cell
C4_Witness ==
  /\ outcome = "Died"
  /\ status = "gameover"
  /\ Len(snakeRef) >= 2
  /\ nextCell(snakeRef, directionRef) = snakeRef[Len(snakeRef)]

\* some cell of the board is free of the snake
freeCellExists ==
  \E px \in 0..(boardRef.cols - 1) : \E py \in 0..(boardRef.rows - 1) :
     Point(px, py) \notin SegSet(snakeRef)

\* C5 as stated: while running, and a free cell exists, the food is on no
\* segment of the snake.
C5_Original ==
  (status = "running" /\ freeCellExists) => foodRef \notin SegSet(snakeRef)

\* C5: while running, the food is on no segment of the snake unless it is
\* the fallback cell (0,0) of spawnFood.
C5_FoodDisjoint ==
  status = "running" => (foodRef \notin SegSet(snakeRef) \/ foodRef = Point(0, 0))

\* food was respawned after an Ate tick, away from (0,0)
C5_Witness ==
  /\ status = "running"
  /\ outcome = "Ate"
  /\ foodRef # Point(0, 0)
  /\ foodRef \notin SegSet(snakeRef)

\* C6: highScore never decreases, and score decreases only in a start,
\* which sets it to 0.
C6_ScoreMonotonic ==
  [][/\ highScore' >= highScore
     /\ score' < score => (score' = 0 /\ startGame)]_vars

\* a start has put the score of a run that had scored back to 0
C6_Witness ==
  /\ outcome = "started"
  /\ score = 0
  /\ highScore = 1

\* C7: a tick onto the food cell (on the board, off the snake) adds 1 to
\* score, makes highScore the larger of its old value and the new score and
\* spawns the food again against the grown snake; any other tick that moves
\* leaves score, highScore and food alone.
C7_AteEffects ==
  [][(tick /\ ~offBoard(target, boardRef) /\ target \notin SegSet(snakeRef)) =>
       IF target = foodRef
       THEN /\ score' = score + 1
            /\ highScore' = IF highScore > score + 1 THEN highScore ELSE score + 1
            /\ snakeRef' = <<target>> \o snakeRef
            /\ foodRef' \in spawnFood(<<target>> \o snakeRef, boardRef)
            /\ foodRef' \notin SegSet(snakeRef') \/ foodRef' = Point(0, 0)
       ELSE UNCHANGED <<score, highScore, foodRef>>]_vars

\* the scenario of the 12x12 board: the start snake has eaten at (7,6)
C7_Witness ==
  /\ outcome = "Ate"
  /\ boardRef.cols = 12
  /\ boardRef.rows = 12
  /\ snakeRef = <<Point(7, 6), Point(6, 6), Point(5, 6), Point(4, 6)>>
  /\ score = 1
  /\ highScore = 1

\* C8: a start on a sized board sets score 0, the three-segment snake headed
\* at the centre, both directions right, a spawned food and status running,
\* and leaves highScore alone.
C8_Start ==
  [][(boardRef.cols # 0 /\ startGame) =>
       LET c == boardRef.cols \div 2
           r == boardRef.rows \div 2
       IN /\ score' = 0
          /\ snakeRef' = <<Point(c, r), Point(c - 1, r), Point(c - 2, r)>>
          /\ directionRef' = "right"
          /\ pendingDirectionRef' = "right"
          /\ foodRef' \in spawnFood(snakeRef', boardRef)
          /\ status' = "running"
          /\ highScore' = highScore]_vars

\* a run was started again on the 14-column board after one that had scored
C8_Witness ==
  /\ outcome = "started"
  /\ status = "running"
  /\ boardRef.cols = 14
  /\ snakeRef = <<Point(7, 6), Point(6, 6), Point(5, 6)>>
  /\ highScore = 1

\* C9: a start while the board has no columns changes nothing.
C9_StartUnsized ==
  [][(boardRef.cols = 0 /\ startGame) =>
       UNCHANGED <<boardRef, snakeRef, foodRef, directionRef, pendingDirectionRef,
                   status, statusRef, score, highScore, timers>>]_vars

\* a start was ignored before the board was sized
C9_Witness ==
  /\ outcome = "ignored"
  /\ boardRef.cols = 0
  /\ status = "ready"

\* C10: status changes only from ready to running by a start, from running
\* to gameover by a tick that dies, and from gameover to running by a start.
C10_StatusMachine ==
  [][status' # status =>
       \/ status = "ready" /\ status' = "running" /\ startGame
       \/ status = "running" /\ status' = "gameover" /\ tick /\ outcome' = "Died"
       \/ status = "gameover" /\ status' = "running" /\ startGame]_vars

\* a run has ended and the end has been rendered
C10_Witness ==
  /\ status = "gameover"
  /\ statusRef = "gameover"
  /\ timers = 0
  /\ outcome = "Died"

C12_NoReversal ==
  [][tick =>
       /\ directionRef' # opposite[directionRef]
       /\ status = "running" => target # snakeRef[2]]_vars

\* the snake heads left after two turns, each committed by its own tick
C12_Witness ==
  /\ status = "running"
  /\ outcome = "Moved"
  /\ directionRef = "left"
  /\ snakeRef[2].x = snakeRef[1].x + 1

inBoard(p, b) == p.x >= 0 /\ p.x < b.cols /\ p.y >= 0 /\ p.y < b.rows

\* C14: spawnFood returns a cell of the board that is on no segment, or,
\* only after ATTEMPTS samples that were all occupied, the cell (0,0)
\* whether occupied or not; the value is one spawnFood(s, b) lists.
C14_SpawnFood ==
  sf.pc = "done" =>
    /\ inBoard(sf.result, sf.board)
    /\ IF sf.attempt < ATTEMPTS
       THEN sf.result \notin SegSet(sf.snake)
       ELSE sf.attempt = ATTEMPTS /\ sf.result = Point(0, 0)
    /\ sf.result \in SegSet(sf.snake) => sf.result = Point(0, 0)
    /\ sf.result \in spawnFood(sf.snake, sf.board)

\* the fallback was returned, onto the head of the snake
C14_Witness ==
  /\ sf.pc = "done"
  /\ sf.attempt = ATTEMPTS
  /\ sf.result = Point(0, 0)
  /\ sf.snake[1] = Point(0, 0)

\* a free cell was returned after samples that were occupied
C14_WitnessFree ==
  /\ sf.pc = "done"
  /\ sf.attempt \in 1..(ATTEMPTS - 1)
  /\ sf.result = Point(7, 6)

\* C15: for the bounds w x h, cell is floor(min(w, h) / 28) held within
\* 14..26, cols is the larger of 12 and floor(w / cell), rows the larger of
\* 12 and floor(h / cell), and width and height are cols * cell and
\* rows * cell.
C15_BoardSizing ==
  mounted =>
    LET w == viewport[1]
        h == viewport[2]
        m == IF w < h THEN w ELSE h
        b == boardRef
    IN /\ b.cell = IF m \div 28 < 14 THEN 14 ELSE IF m \div 28 > 26 THEN 26 ELSE m \div 28
       /\ b.cols = IF w \div b.cell > 12 THEN w \div b.cell ELSE 12
       /\ b.rows = IF h \div b.cell > 12 THEN h \div b.cell ELSE 12
       /\ b.cell >= 14 /\ b.cell <= 26
       /\ b.cols >= 12 /\ b.rows >= 12
       /\ b.width = b.cols * b.cell
       /\ b.height = b.rows * b.cell

\* the board of a container without size
C15_Witness ==
  /\ mounted
  /\ viewport = <<0, 0>>
  /\ boardRef = [cols |-> 12, rows |-> 12, cell |-> 14, width |-> 168, height |-> 168]

\* a board whose cell is held at 26 and one whose cell lies between
C15_WitnessLarge ==
  /\ mounted
  /\ viewport = <<1000, 756>>
  /\ boardRef = [cols |-> 38, rows |-> 29, cell |-> 26, width |-> 988, height |-> 754]

\* C16 as stated: the interval is armed exactly while the rendered status is
\* running and whenever status is running, a tick fires only while status
\* is running (none after a tick that died, until the next start), and at
\* most one interval is armed.
C16_TimerDiscipline ==
  [][/\ mounted' => (timers' = 1 <=> statusRef' = "running")
     /\ (mounted' /\ status' = "running") => timers' = 1
     /\ tick => status = "running"
     /\ timers' <= 1]_vars

\* C17: a resize while running or gameover replaces the board and leaves
\* snake, food, directions, score and status alone; a resize while ready
\* seeds snake, food and directions again for the new board.
C17_ResizeFrame ==
  [][Resize =>
       /\ \E v \in Viewports : boardRef' = computeBoard(v[1], v[2])
       /\ UNCHANGED <<score, status>>
       /\ IF status = "ready"
          THEN LET c == boardRef'.cols \div 2
                   r == boardRef'.rows \div 2
               IN /\ snakeRef' = <<Point(c, r), Point(c - 1, r), Point(c - 2, r)>>
                  /\ directionRef' = "right"
                  /\ pendingDirectionRef' = "right"
                  /\ foodRef' \in spawnFood(snakeRef', boardRef')
          ELSE UNCHANGED game]_vars

\* the board grew to 14 columns right after a start on 12: the snake of the
\* 12-column board is still there
C17_Witness ==
  /\ status = "running"
  /\ outcome = "started"
  /\ boardRef.cols = 14
  /\ snakeRef = <<Point(6, 6), Point(5, 6), Point(4, 6)>>

\* the ready snake was seeded again for the 14-column board
C17_WitnessReady ==
  /\ status = "ready"
  /\ boardRef.cols = 14
  /\ snakeRef = <<Point(7, 6), Point(6, 6), Point(5, 6)>>

Manhattan(p, q) ==
  (IF p.x > q.x THEN p.x - q.x ELSE q.x - p.x) + (IF p.y > q.y THEN p.y - q.y ELSE q.y - p.y)

\* C18: while running, the segments of the snake are pairwise distinct and
\* consecutive segments are at Manhattan distance 1.
C18_SnakeShape ==
  status = "running" =>
    /\ \A i \in 1..Len(snakeRef) : \A j \in 1..Len(snakeRef) :
         i # j => snakeRef[i] # snakeRef[j]
    /\ \A i \in 1..(Len(snakeRef) - 1) : Manhattan(snakeRef[i], snakeRef[i + 1]) = 1

\* a grown snake with a bend
C18_Witness ==
  /\ status = "running"
  /\ Len(snakeRef) = 4
  /\ snakeRef[1].y # snakeRef[4].y
  /\ snakeRef[1].x # snakeRef[4].x

\* C19: while running, the board has at least 12 columns and 12 rows and
\* the snake has at least 3 segments.
C19_RunningSized ==
  status = "running" =>
    /\ boardRef.cols >= 12
    /\ boardRef.rows >= 12
    /\ Len(snakeRef) >= 3

\* a run on the smallest board, moving with the three segments of the start
C19_Witness ==
  /\ status = "running"
  /\ outcome = "Moved"
  /\ boardRef.cols = 12
  /\ boardRef.rows = 12
  /\ Len(snakeRef) = 3

\* C20: while running or gameover, the snake has score + 3 segments.
C20_LengthScore ==
  status \in {"running", "gameover"} => Len(snakeRef) = score + 3

\* a run that had scored has ended
C20_Witness ==
  /\ status = "gameover"
  /\ score = 1
  /\ Len(snakeRef) = 4

TypeOK ==
  /\ status \in {"ready", "running", "gameover"}
  /\ statusRef \in {"ready", "running", "gameover"}
  /\ directionRef \in Direction
  /\ pendingDirectionRef \in Direction
  /\ score \in 0..MaxScore
  /\ highScore \in Nat
  /\ timers \in 0..1
  /\ mounted \in BOOLEAN
  /\ queued \in 0..MaxQueued
  /\ sf.attempt \in 0..ATTEMPTS
====
